---- MODULE Spec2Model ----
(***************************************************************************)
(* Model of the migration runner of pg-utils-python                        *)
(* (src/pg_utils/migration_manager.py) on top of the statement executor    *)
(* of src/pg_utils/database.py.                                            *)
(*                                                                         *)
(* A migration file is a text; the model keeps it as the sequence of its   *)
(* lexical items: the markers "-- up" and "-- down" and SQL statements.    *)
(* "CREATE" creates the schema object of the file, "DROP" drops it and     *)
(* "SELECT" is a statement that returns rows (it has column descriptors).  *)
(* File names are strings, modelled as sequences of character codes, so    *)
(* that sorted() is the lexicographic order of the code.                   *)
(*                                                                         *)
(* The connection is opened with autocommit=False: the driver opens a      *)
(* transaction before the first statement sent while none is open, and     *)
(* connection.commit() ends it.                                            *)
(***************************************************************************)
EXTENDS Integers, Sequences, FiniteSets, TLC

VARIABLES
    disk,       \* the migrations directory: file name -> content
    connected,  \* initialize() has run: a connection and the ledger table exist
    db,         \* committed database state: [schema, ledger]
    tx,         \* what the connection sees (committed state + open transaction)
    status,     \* transaction status of the connection: idle / active / aborted
    seq,        \* next value of the SERIAL sequence behind "_migrations"."id"
    lastOp,     \* the last call made
    raised,     \* whether the last call raised to its caller
    log,        \* the statements the last call sent on the connection, in order
    fail,       \* the apply_migration of the last call that raised, or NoFail
    before,     \* the committed ledger when the last call started
    prev,       \* the call before the last one was an apply-all that did not raise
    rt,         \* progress of an apply / revert round trip of one file
    procs,      \* two processes running apply_all_migrations on one database
    client,     \* one PgUtils client: its database and its connections
    query       \* the last call of the query builder: its input and its output

\* the state of one MigrationManager and its database
vars == <<disk, connected, db, tx, status, seq, lastOp, raised, log, fail, before, prev, rt>>

\* the state of the other components, which one manager alone leaves untouched
others == <<procs, client, query>>

Unused == <<>>

----------------------------------------------------------------------------
(* Bounds *)

\* ids the SERIAL sequence may hand out in a run
MaxId == 3

\* files that may be in the migrations directory at the same time
MaxFiles == 2

----------------------------------------------------------------------------
(* File names and file contents *)

NoName == <<>>

\* "1" < "12" < "2" lexicographically, while 1 < 2 < 12 as numbers
FileNames == {<<1>>, <<1, 2>>, <<2>>}

UpMarker == "-- up"
DownMarker == "-- down"

Good == <<UpMarker, "CREATE", DownMarker, "DROP">>
\* no "-- up" marker, and the first statement of each section returns rows
Rows == <<"SELECT", "CREATE", DownMarker, "SELECT", "DROP">>
NoDown == <<UpMarker, "CREATE">>
TwoDown == <<UpMarker, "CREATE", DownMarker, "DROP", DownMarker, "CREATE">>

Contents == {Good, Rows, NoDown, TwoDown}

RECURSIVE LexLess(_, _)
\* Python's str comparison, used by sorted()
LexLess(a, b) ==
    IF a = <<>> THEN b # <<>>
    ELSE IF b = <<>> THEN FALSE
    ELSE IF Head(a) # Head(b) THEN Head(a) < Head(b)
    ELSE LexLess(Tail(a), Tail(b))

RECURSIVE SortedDescending(_)
\* Sorted with the order reversed, as sorted(..., reverse=True) would give
SortedDescending(S) ==
    IF S = {} THEN <<>>
    ELSE LET m == CHOOSE x \in S : \A y \in S \ {x} : LexLess(y, x)
         IN <<m>> \o SortedDescending(S \ {m})

RECURSIVE Sorted(_)
\* sorted(os.listdir(path)): ascending list of a set of names
Sorted(S) ==
    IF S = {} THEN <<>>
    ELSE LET m == CHOOSE x \in S : \A y \in S \ {x} : LexLess(x, y)
         IN <<m>> \o Sorted(S \ {m})

RECURSIVE Split(_, _)
\* str.split(marker): the pieces between the occurrences of the marker
Split(s, marker) ==
    IF \A i \in 1..Len(s) : s[i] # marker THEN <<s>>
    ELSE LET i == CHOOSE k \in 1..Len(s) :
                      s[k] = marker /\ \A j \in 1..(k - 1) : s[j] # marker
         IN <<SubSeq(s, 1, i - 1)>> \o Split(SubSeq(s, i + 1, Len(s)), marker)

\* str.replace(marker, "")
Remove(s, marker) == SelectSeq(s, LAMBDA t : t # marker)

----------------------------------------------------------------------------
(* The connection: Database.connect, Database.execute_query and the        *)
(* statements of the ledger.  A connection state S is a record             *)
(* [db, tx, status, seq, log].                                             *)

Stmt(kind, file, sql) == [kind |-> kind, file |-> file, sql |-> sql]

\* autocommit=False: the driver opens a transaction before a statement sent
\* while none is open
ImplicitBegin(S) ==
    IF S.status = "idle" THEN [S EXCEPT !.status = "active", !.tx = S.db] ELSE S

\* connection.commit(): COMMIT of the open transaction; the server turns the
\* COMMIT of an aborted transaction into a rollback
ConnCommit(S) ==
    CASE S.status = "active" -> [S EXCEPT !.db = S.tx, !.status = "idle"]
      [] S.status = "aborted" -> [S EXCEPT !.tx = S.db, !.status = "idle"]
      [] OTHER -> S

RECURSIVE RunSql(_, _, _)
\* the effect of the statements of a migration section on the schema
RunSql(schema, sql, file) ==
    IF sql = <<>> THEN schema
    ELSE RunSql(CASE Head(sql) = "CREATE" -> schema \cup {file}
                  [] Head(sql) = "DROP" -> schema \ {file}
                  [] OTHER -> schema,
                Tail(sql), file)

\* what a statement that succeeds does inside the open transaction
Effect(S, stmt) ==
    CASE stmt.kind = "BEGIN" -> S  \* a transaction is already open: a warning
      [] stmt.kind = "COMMIT" -> ConnCommit(S)
      [] stmt.kind = "ROLLBACK" -> [S EXCEPT !.tx = S.db, !.status = "idle"]
      [] stmt.kind = "SQL" ->
            [S EXCEPT !.tx.schema = RunSql(S.tx.schema, stmt.sql, stmt.file)]
      [] stmt.kind = "INSERT" ->
            [S EXCEPT !.tx.ledger = @ \cup {[id |-> S.seq, name |-> stmt.file]},
                      !.seq = @ + 1]
      [] stmt.kind = "DELETE" ->
            [S EXCEPT !.tx.ledger = {r \in @ : r.name # stmt.file}]
      [] OTHER -> S  \* SELECT, CREATE TABLE IF NOT EXISTS

\* cursor.description after execute: the descriptors of the first result
Description(stmt) ==
    \/ stmt.kind = "SELECT"
    \/ stmt.kind = "SQL" /\ stmt.sql # <<>> /\ Head(stmt.sql) = "SELECT"

\* cursor.execute(query): fails is the injected failure of this statement
CursorExecute(S, stmt, fails) ==
    LET B == ImplicitBegin(S)
        sent == [B EXCEPT !.log = Append(@, [kind |-> stmt.kind, file |-> stmt.file,
                                              sql |-> stmt.sql, ok |-> TRUE])]
        bad == [B EXCEPT !.log = Append(@, [kind |-> stmt.kind, file |-> stmt.file,
                                             sql |-> stmt.sql, ok |-> FALSE]),
                         !.status = "aborted"]
    IN  IF fails \/ (B.status = "aborted" /\ stmt.kind \notin {"COMMIT", "ROLLBACK"})
        THEN [s |-> bad, raised |-> TRUE]
        ELSE [s |-> Effect(sent, stmt), raised |-> FALSE]

\* ExecuteQuery committing after every statement, rows or not
ExecuteQueryCommitAlways(S, stmt, fails) ==
    LET r == CursorExecute(S, stmt, fails)
    IN  IF r.raised THEN r ELSE [s |-> ConnCommit(r.s), raised |-> FALSE]

\* execute_query: commit when the cursor has no description, the rows otherwise
ExecuteQuery(S, stmt, fails) ==
    LET r == CursorExecute(S, stmt, fails)
    IN  IF r.raised THEN r
        ELSE IF ~Description(stmt) THEN [s |-> ConnCommit(r.s), raised |-> FALSE]
        ELSE r

InsertIntoTable(S, name, fails) ==
    LET r == CursorExecute(S, Stmt("INSERT", name, <<>>), fails)
    IN  IF r.raised THEN r ELSE [s |-> ConnCommit(r.s), raised |-> FALSE]

\* DeleteFromTable with a filter that matches no row
DeleteNothing(S, name, fails) ==
    LET r == CursorExecute(S, Stmt("DELETE", NoName, <<>>), fails)
    IN  IF r.raised THEN r ELSE [s |-> ConnCommit(r.s), raised |-> FALSE]

DeleteFromTable(S, name, fails) ==
    LET r == CursorExecute(S, Stmt("DELETE", name, <<>>), fails)
    IN  IF r.raised THEN r ELSE [s |-> ConnCommit(r.s), raised |-> FALSE]

\* find_many("_migrations", ...): the SELECT, whose rows are S.tx.ledger
FindMany(S) == ExecuteQuery(S, Stmt("SELECT", NoName, <<>>), FALSE).s

RECURSIVE OrderByIdAsc(_)
\* OrderByIdDesc with the direction reversed: oldest record first
OrderByIdAsc(rows) ==
    IF rows = {} THEN <<>>
    ELSE LET m == CHOOSE r \in rows : \A q \in rows : r.id <= q.id
         IN <<m.name>> \o OrderByIdAsc(rows \ {m})

RECURSIVE OrderByNameDesc(_)
\* OrderByIdDesc ordering by file name instead of by id
OrderByNameDesc(rows) ==
    IF rows = {} THEN <<>>
    ELSE LET m == CHOOSE r \in rows :
                      \A q \in rows : q.name = r.name \/ LexLess(q.name, r.name)
         IN <<m.name>> \o OrderByNameDesc(rows \ {m})

RECURSIVE OrderByIdDesc(_)
\* ORDER BY id DESC: the names of the rows, greatest id first
OrderByIdDesc(rows) ==
    IF rows = {} THEN <<>>
    ELSE LET m == CHOOSE r \in rows : \A q \in rows : q.id <= r.id
         IN <<m.name>> \o OrderByIdDesc(rows \ {m})

Names(rows) == {r.name : r \in rows}

----------------------------------------------------------------------------
(* MigrationManager *)

NoFault == [file |-> NoName, step |-> "none"]
\* the failure injected into a call: reading one file, its migration SQL or
\* its ledger write fails.  A batch stops at its first failure, so one fault
\* per call covers every failure pattern, and only a fault of a file the call
\* works on (files) changes anything.
Faults(files) == {NoFault} \cup [file : files, step : {"read", "sql", "ledger"}]

NoFail == [file |-> NoName, dir |-> "none", kind |-> "none",
           pre |-> [schema |-> {}, ledger |-> {}]]

\* ParseFile splitting at the first marker only, as split("-- down", 1) would
ParseFileFirstMarker(content, dir) ==
    LET parts == Split(content, DownMarker)
    IN  IF Len(parts) < 2 THEN [ok |-> FALSE, sql |-> <<>>]
        ELSE [ok |-> TRUE,
              sql |-> IF dir = "up" THEN Remove(parts[1], UpMarker) ELSE parts[2]]

\* up_sql, down_sql = file_content.split("-- down"), then the section of the
\* direction; the unpacking raises unless there are exactly two pieces
ParseFile(content, dir) ==
    LET parts == Split(content, DownMarker)
    IN  IF Len(parts) # 2 THEN [ok |-> FALSE, sql |-> <<>>]
        ELSE [ok |-> TRUE,
              sql |-> IF dir = "up" THEN Remove(parts[1], UpMarker) ELSE parts[2]]

\* Handler without the raise: the error is printed and swallowed
HandlerSwallow(S, file, dir, kind, pre) ==
    [s |-> ExecuteQuery(S, Stmt("ROLLBACK", file, <<>>), FALSE).s,
     raised |-> FALSE,
     fail |-> NoFail]

\* the except clause of apply_migration: ROLLBACK, then re-raise
Handler(S, file, dir, kind, pre) ==
    [s |-> ExecuteQuery(S, Stmt("ROLLBACK", file, <<>>), FALSE).s,
     raised |-> TRUE,
     fail |-> [file |-> file, dir |-> dir, kind |-> kind, pre |-> pre]]

\* the ledger write of apply_migration: insert for "up", delete for "down"
LedgerWrite(S, file, dir, fails) ==
    IF dir = "up" THEN InsertIntoTable(S, file, fails)
    ELSE DeleteFromTable(S, file, fails)

ApplyMigration(S, file, dir, fault) ==
    LET pre == S.db
        parsed == ParseFile(disk[file], dir)
        s1 == ExecuteQuery(S, Stmt("BEGIN", file, <<>>), FALSE)
        s2 == ExecuteQuery(s1.s, Stmt("SQL", file, parsed.sql),
                           fault = [file |-> file, step |-> "sql"])
        s3 == LedgerWrite(s2.s, file, dir, fault = [file |-> file, step |-> "ledger"])
        s4 == ExecuteQuery(s3.s, Stmt("COMMIT", file, <<>>), FALSE)
    IN  IF file \notin DOMAIN disk \/ fault = [file |-> file, step |-> "read"]
        THEN Handler(S, file, dir, "read", pre)
        ELSE IF ~parsed.ok THEN Handler(S, file, dir, "parse", pre)
        ELSE IF s1.raised THEN Handler(s1.s, file, dir, "begin", pre)
        ELSE IF s2.raised THEN Handler(s2.s, file, dir, "sql", pre)
        ELSE IF s3.raised THEN Handler(s3.s, file, dir, "ledger", pre)
        ELSE IF s4.raised THEN Handler(s4.s, file, dir, "commit", pre)
        ELSE [s |-> s4.s, raised |-> FALSE, fail |-> NoFail]

RECURSIVE RunBatchNoStop(_, _, _, _)
\* RunBatch going on with the next file after a failure
RunBatchNoStop(S, list, dir, fault) ==
    IF list = <<>> THEN [s |-> S, raised |-> FALSE, fail |-> NoFail]
    ELSE LET r == ApplyMigration(S, Head(list), dir, fault)
             rest == RunBatchNoStop(r.s, Tail(list), dir, fault)
         IN  IF r.raised THEN [s |-> rest.s, raised |-> TRUE, fail |-> r.fail]
             ELSE rest

RECURSIVE RunBatch(_, _, _, _)
\* for migration in list: self.apply_migration(migration, dir); the first
\* exception leaves the loop
RunBatch(S, list, dir, fault) ==
    IF list = <<>> THEN [s |-> S, raised |-> FALSE, fail |-> NoFail]
    ELSE LET r == ApplyMigration(S, Head(list), dir, fault)
         IN  IF r.raised THEN r ELSE RunBatch(r.s, Tail(list), dir, fault)

\* Pending without the filter on the applied names
PendingAll(applied) == Sorted(DOMAIN disk)

\* pending_migrations of apply_all_migrations
Pending(applied) ==
    SelectSeq(Sorted(DOMAIN disk), LAMBDA m : m \notin applied)

ApplyAllMigrations(S, fault) ==
    LET s1 == FindMany(S)
        applied == Names(s1.tx.ledger)
    IN  RunBatch(s1, Pending(applied), "up", fault)

RevertLastMigration(S, fault) ==
    LET s1 == FindMany(S)
        result == OrderByIdDesc(s1.tx.ledger)
    IN  IF result = <<>> THEN [s |-> s1, raised |-> FALSE, fail |-> NoFail]
        ELSE ApplyMigration(s1, Head(result), "down", fault)

RevertAllMigrations(S, fault) ==
    LET s1 == FindMany(S)
    IN  RunBatch(s1, OrderByIdDesc(s1.tx.ledger), "down", fault)

\* InitializeManager creating the table anew: DROP TABLE, then CREATE TABLE
InitializeRecreate(S) ==
    ExecuteQuery([S EXCEPT !.tx = [S.db EXCEPT !.ledger = {}], !.status = "active"],
                 Stmt("CREATE TABLE", NoName, <<>>), FALSE).s

\* initialize(): a new connection, then CREATE TABLE IF NOT EXISTS "_migrations"
InitializeManager(S) ==
    ExecuteQuery([S EXCEPT !.tx = S.db, !.status = "idle"],
                 Stmt("CREATE TABLE", NoName, <<>>), FALSE).s

----------------------------------------------------------------------------
(* The state machine *)

Cur == [db |-> db, tx |-> tx, status |-> status, seq |-> seq, log |-> <<>>]

NoTrip == [file |-> NoName, base |-> {}, phase |-> "none", rounds |-> 0]

\* the files whose migration SQL a run sent and saw succeed, in order
Executed(l) ==
    LET sel == SelectSeq(l, LAMBDA e : e.kind = "SQL" /\ e.ok)
    IN  [i \in 1..Len(sel) |-> sel[i].file]

\* the round trip monitor: an apply-all that applied exactly one file, then a
\* revert-last of that file, and so on; base is the set of ledger names before
\* the first apply
NextTrip(op, R) ==
    LET done == Executed(R.s.log)
    IN  IF R.raised \/ Len(done) # 1 THEN NoTrip
        ELSE IF op = "apply_all"
        THEN IF rt.phase = "reverted" /\ rt.file = done[1]
             THEN [rt EXCEPT !.phase = "applied"]
             ELSE [file |-> done[1], base |-> Names(db.ledger),
                   phase |-> "applied", rounds |-> 0]
        ELSE IF op = "revert_last" /\ rt.phase = "applied" /\ rt.file = done[1]
        THEN [rt EXCEPT !.phase = "reverted", !.rounds = @ + 1]
        ELSE NoTrip

Init ==
    /\ disk = <<>>
    /\ connected = FALSE
    /\ db = [schema |-> {}, ledger |-> {}]
    /\ tx = [schema |-> {}, ledger |-> {}]
    /\ status = "idle"
    /\ seq = 1
    /\ lastOp = "none"
    /\ raised = FALSE
    /\ log = <<>>
    /\ fail = NoFail
    /\ before = {}
    /\ prev = FALSE
    /\ rt = NoTrip
    /\ procs = Unused
    /\ client = Unused
    /\ query = Unused

\* the outcome R of a call of the manager becomes the new state
Finish(op, R) ==
    /\ R.s.seq <= MaxId + 1
    /\ db' = R.s.db
    /\ tx' = R.s.tx
    /\ status' = R.s.status
    /\ seq' = R.s.seq
    /\ log' = R.s.log
    /\ raised' = R.raised
    /\ fail' = R.fail
    /\ lastOp' = op
    /\ before' = db.ledger
    /\ prev' = (lastOp = "apply_all" /\ ~raised)
    /\ rt' = NextTrip(op, R)
    /\ UNCHANGED <<disk, others>>

\* PgUtils.get_migrations: every caller gets the manager through initialize()
Initialize ==
    /\ Finish("initialize", [s |-> InitializeManager(Cur), raised |-> FALSE,
                             fail |-> NoFail])
    /\ connected' = TRUE

ApplyAll ==
    /\ connected
    /\ \E fault \in Faults(DOMAIN disk \ Names(tx.ledger)) :
          Finish("apply_all", ApplyAllMigrations(Cur, fault))
    /\ UNCHANGED connected

RevertLast ==
    /\ connected
    /\ \E fault \in Faults(Names(tx.ledger)) :
          Finish("revert_last", RevertLastMigration(Cur, fault))
    /\ UNCHANGED connected

RevertAll ==
    /\ connected
    /\ \E fault \in Faults(Names(tx.ledger)) :
          Finish("revert_all", RevertAllMigrations(Cur, fault))
    /\ UNCHANGED connected

\* a batch called on a manager whose initialize() has not run: the Database
\* has no connection attribute yet, so the first execute_query raises before
\* any statement is sent
CallBeforeInitialize ==
    /\ ~connected
    /\ lastOp' = "no_connection"
    /\ raised' = TRUE
    /\ log' = <<>>
    /\ fail' = NoFail
    /\ before' = db.ledger
    /\ prev' = FALSE
    /\ rt' = NoTrip
    /\ UNCHANGED <<disk, connected, db, tx, status, seq, others>>

\* the environment: the developer adds a migration file to the directory
FileSystem(newDisk) ==
    /\ disk' = newDisk
    /\ lastOp' = "fs"
    /\ raised' = FALSE
    /\ log' = <<>>
    /\ fail' = NoFail
    /\ before' = db.ledger
    /\ prev' = (lastOp = "apply_all" /\ ~raised)
    /\ rt' = NoTrip
    /\ UNCHANGED <<connected, db, tx, status, seq, others>>

AddFile ==
    \E f \in FileNames \ DOMAIN disk, c \in Contents :
        /\ Cardinality(DOMAIN disk) < MaxFiles
        /\ FileSystem([g \in DOMAIN disk \cup {f} |-> IF g = f THEN c ELSE disk[g]])

Next ==
    \/ Initialize
    \/ ApplyAll
    \/ RevertLast
    \/ RevertAll
    \/ CallBeforeInitialize
    \/ AddFile

Spec == Init /\ [][Next]_<<vars, others>>

----------------------------------------------------------------------------
(* Properties *)

Pieces(f) == Len(Split(disk[f], DownMarker))

\* the files whose migration SQL a run sent, whether it succeeded or not
Sent(l) ==
    LET sel == SelectSeq(l, LAMBDA e : e.kind = "SQL")
    IN  [i \in 1..Len(sel) |-> sel[i].file]

\* the files whose ledger write a run saw succeed
Written(l) == {l[i].file : i \in {j \in 1..Len(l) : l[j].kind \in {"INSERT", "DELETE"}
                                                     /\ l[j].ok}}

Range(q) == {q[i] : i \in 1..Len(q)}

\* the text of a file before / after its (first) "-- down" marker
DownAt(f) == CHOOSE k \in 1..Len(disk[f]) :
                 disk[f][k] = DownMarker /\ \A j \in 1..(k - 1) : disk[f][j] # DownMarker
UpSection(f) == SelectSeq(SubSeq(disk[f], 1, DownAt(f) - 1), LAMBDA t : t # UpMarker)
DownSection(f) == SubSeq(disk[f], DownAt(f) + 1, Len(disk[f]))

\* C1 (as claimed): when the ledger write of apply_migration fails after the
\* migration SQL ran, the committed schema and ledger are what they were when
\* that apply_migration started.
C1_LedgerFailureUndoesSql ==
    (raised /\ fail.kind = "ledger") => db = fail.pre

\* C2: when the "up" SQL of a pending file fails in apply_all_migrations, the
\* ledger has no record of that file, every record there was before the call
\* and every file applied earlier in the batch is recorded, and no statement
\* was sent for any later pending file, which is not recorded either.
C2_FailFast ==
    (lastOp = "apply_all" /\ raised /\ fail.kind = "sql" /\ fail.dir = "up") =>
        LET pending == DOMAIN disk \ Names(before)
            earlier == {f \in pending : LexLess(f, fail.file)}
            later == {f \in pending : LexLess(fail.file, f)}
        IN  /\ fail.file \in pending
            /\ fail.file \notin Names(db.ledger)
            /\ before \subseteq db.ledger
            /\ earlier \subseteq Names(db.ledger)
            /\ \A f \in later :
                  /\ f \notin Names(db.ledger)
                  /\ \A i \in 1..Len(log) : log[i].file # f
            /\ log[Len(log)].kind = "ROLLBACK" /\ log[Len(log)].file = fail.file
            /\ log[Len(log) - 1].kind = "SQL" /\ log[Len(log) - 1].file = fail.file

C2_Witness ==
    /\ lastOp = "apply_all" /\ raised /\ fail.kind = "sql"
    /\ \E f \in DOMAIN disk \ Names(before) : LexLess(fail.file, f)

\* C3: apply_all_migrations sends the "up" SQL of files on disk that are not in
\* the ledger, each once, in ascending lexicographic order of the names, and
\* the insert of a file succeeds before the SQL of the next file is sent; a call
\* that does not raise sent the SQL of every such file and leaves every file on
\* disk recorded.
C3_ApplyOrder ==
    lastOp = "apply_all" =>
        LET sent == Sent(log)
            sqlAt == {i \in 1..Len(log) : log[i].kind = "SQL"}
        IN  /\ Range(sent) \subseteq DOMAIN disk \ Names(before)
            /\ \A i, j \in 1..Len(sent) : i < j => LexLess(sent[i], sent[j])
            /\ \A f \in (DOMAIN disk \ Names(before)) \ Range(sent) :
                  \A g \in Range(sent) : LexLess(g, f)
            /\ \A i, j \in sqlAt : i < j =>
                  \E k \in (i + 1)..(j - 1) :
                      log[k].kind = "INSERT" /\ log[k].file = log[i].file /\ log[k].ok
            /\ \A i \in sqlAt : log[i].sql = UpSection(log[i].file)
            /\ ~raised =>
                  /\ Range(sent) = DOMAIN disk \ Names(before)
                  /\ DOMAIN disk \subseteq Names(db.ledger)

C3_Witness ==
    /\ lastOp = "apply_all" /\ ~raised
    /\ Sent(log) = << <<1, 2>>, <<2>> >>

\* the record of the ledger `rows` with the greatest id
Newest(rows) == CHOOSE r \in rows : \A q \in rows : q.id <= r.id

\* C4: revert_all_migrations sends the "down" SQL of the recorded files from
\* the greatest ledger id down, each once; its first step is what
\* revert_last_migration does in the same state; when it raises, the record of
\* the failing file and of every file not yet reverted is still in the ledger,
\* and when it does not raise the ledger is empty.
C4_RevertAllOrder ==
    /\ lastOp = "revert_all" =>
        LET sent == Sent(log)
            idOf(f) == (CHOOSE r \in before : r.name = f).id
            sqlAt == {i \in 1..Len(log) : log[i].kind = "SQL"}
        IN  /\ Range(sent) \subseteq Names(before)
            /\ \A i, j \in 1..Len(sent) : i < j => idOf(sent[i]) > idOf(sent[j])
            /\ \A r \in before : r.name \notin Range(sent) =>
                  \A g \in Range(sent) : r.id < idOf(g)
            /\ \A i \in sqlAt : log[i].sql = DownSection(log[i].file)
            /\ db.ledger = {r \in before : r.name \notin Written(log)}
            /\ raised =>
                  /\ fail.file \in Names(db.ledger)
                  /\ \A r \in before : r.name \notin Written(log) => r \in db.ledger
                  /\ \A r \in before : r.id < idOf(fail.file) =>
                        /\ r \in db.ledger
                        /\ \A i \in 1..Len(log) : log[i].file # r.name
            /\ ~raised => db.ledger = {} /\ Range(sent) = Names(before)
    /\ connected /\ seq <= MaxId =>
        \A fault \in Faults(Names(tx.ledger)) :
            LET one == RevertLastMigration(Cur, fault)
                all == RevertAllMigrations(Cur, fault)
            IN  /\ Len(one.s.log) <= Len(all.s.log)
                /\ one.s.log = SubSeq(all.s.log, 1, Len(one.s.log))
                /\ one.raised => (all.raised /\ all.s = one.s /\ all.fail = one.fail)

C4_Witness ==
    /\ lastOp = "revert_all" /\ ~raised
    /\ Len(Sent(log)) = 2
    /\ LexLess(Sent(log)[1], Sent(log)[2])

\* a revert-all that stops at the failure of its second file
C4_WitnessStop ==
    /\ lastOp = "revert_all" /\ raised
    /\ Len(Sent(log)) = 2
    /\ Cardinality(db.ledger) = 1

\* C5: revert_last_migration reverts the record with the greatest id and no
\* other, whatever the order of the names; on an empty ledger it sends no
\* migration SQL and no ledger write and leaves the ledger empty.
C5_RevertLast ==
    lastOp = "revert_last" =>
        IF before = {}
        THEN /\ ~raised
             /\ db.ledger = {}
             /\ \A i \in 1..Len(log) : log[i].kind = "SELECT"
        ELSE LET last == Newest(before)
             IN  /\ \A i \in 1..Len(log) : log[i].file \in {NoName, last.name}
                 /\ \A i \in 1..Len(log) :
                       log[i].kind = "SQL" => log[i].sql = DownSection(last.name)
                 /\ ~raised => /\ db.ledger = before \ {last}
                               /\ Sent(log) = <<last.name>>
                 /\ raised => db.ledger = before

\* the reverted file is not the one with the greatest name
C5_Witness ==
    /\ lastOp = "revert_last" /\ ~raised
    /\ Sent(log) # <<>>
    /\ \E r \in db.ledger : LexLess(Sent(log)[1], r.name)

C5_WitnessEmpty ==
    lastOp = "revert_last" /\ before = {} /\ DOMAIN disk # {}

\* C6: after applying one file that was not in the ledger and reverting it, the
\* set of ledger names is the set there was before the apply, also when the
\* pair of calls is repeated.
C6_RoundTrip ==
    /\ rt.phase = "reverted" =>
          /\ Names(db.ledger) = rt.base
          /\ rt.file \in DOMAIN disk \ Names(db.ledger)
    /\ rt.phase = "applied" => Names(db.ledger) = rt.base \cup {rt.file}

\* the second round trip of a file, next to a file that stays applied
C6_Witness ==
    rt.phase = "reverted" /\ rt.rounds = 2 /\ rt.base # {}

\* C7: apply_all_migrations never sends the SQL of a file that is in the
\* ledger, and a call right after a call that did not raise sends no migration
\* SQL and no ledger write and leaves the ledger as it is.
C7_ApplyAllIdempotent ==
    lastOp = "apply_all" =>
        /\ \A i \in 1..Len(log) : log[i].file # NoName => log[i].file \notin Names(before)
        /\ prev =>
              /\ ~raised
              /\ db.ledger = before
              /\ \A i \in 1..Len(log) : log[i].kind = "SELECT"

C7_Witness ==
    lastOp = "apply_all" /\ prev /\ Cardinality(before) = 2

\* C8 (as claimed): when a file without "-- down" marker is applied or
\* reverted, no statement is sent on the connection between the start of its
\* apply_migration and the error reaching the caller.
C8_ParseErrorSendsNothing ==
    (raised /\ fail.kind = "parse" /\ Pieces(fail.file) = 1) =>
        \A i \in 1..Len(log) : log[i].file # fail.file

\* C9: a file with more than one "-- down" marker is rejected: none of its SQL
\* is ever sent, it is never recorded, an apply_migration of it raises a parse
\* error with the committed schema and ledger as they were, and an apply-all
\* with such a file on disk raises.
C9_DuplicateMarkerRejected ==
    \A f \in DOMAIN disk : Pieces(f) > 2 =>
        /\ \A i \in 1..Len(log) : log[i].file = f => log[i].kind = "ROLLBACK"
        /\ f \notin Names(db.ledger)
        /\ fail.file = f => (raised /\ fail.kind \in {"read", "parse"} /\ db = fail.pre)
        /\ lastOp = "apply_all" => raised

C9_Witness ==
    /\ raised /\ fail.kind = "parse" /\ Pieces(fail.file) = 3
    /\ db.ledger # {}

\* C10: the ledger never holds two records with the same file name, neither
\* committed nor in the transaction the connection sees.
C10_UniqueNames ==
    /\ \A r, q \in db.ledger : r.name = q.name => r = q
    /\ \A r, q \in tx.ledger : r.name = q.name => r = q

\* two records, one of a file applied again after a revert and a failed call
C10_Witness ==
    /\ Cardinality(db.ledger) = 2
    /\ seq = 4
    /\ raised

\* C12: when a step of apply_migration fails, the statement sent next is the
\* ROLLBACK of that file and it is the last one of the call, no COMMIT of the
\* file is sent, and the call raises with the error of the step that failed; a
\* call that sent a ROLLBACK or saw a statement fail never returns normally.
C12_FailLoud ==
    lastOp \in {"apply_all", "revert_last", "revert_all"} =>
        LET n == Len(log)
            failedAt == {i \in 1..n : ~log[i].ok}
            rollbacks == {i \in 1..n : log[i].kind = "ROLLBACK"}
        IN  /\ (failedAt # {} \/ rollbacks # {}) => raised
            /\ raised <=> fail # NoFail
            /\ raised =>
                  /\ fail.kind \in {"read", "parse", "sql", "ledger"}
                  /\ rollbacks = {n}
                  /\ log[n].file = fail.file /\ log[n].ok
                  /\ \A i \in 1..n : log[i].file = fail.file => log[i].kind # "COMMIT"
                  /\ fail.kind \in {"read", "parse"} =>
                        \A i \in 1..(n - 1) : log[i].file # fail.file
                  /\ fail.kind = "sql" =>
                        failedAt = {n - 1} /\ log[n - 1].kind = "SQL"
                  /\ fail.kind = "ledger" =>
                        failedAt = {n - 1} /\ log[n - 1].kind \in {"INSERT", "DELETE"}
                  /\ status = "idle" /\ tx = db
            /\ \A i \in failedAt : log[i].file = fail.file

\* the ledger write of the second file of a batch fails
C12_Witness ==
    /\ lastOp = "apply_all" /\ raised /\ fail.kind = "ledger"
    /\ Len(Sent(log)) = 2

\* C14: no statement reaches the ledger before initialize() has ensured the
\* table, and initialize() on a database that has the table sends only the
\* CREATE TABLE IF NOT EXISTS and leaves every ledger record as it is.
C14_LedgerEnsured ==
    /\ ~connected => (log = <<>> /\ db.ledger = {} /\ tx.ledger = {})
    /\ lastOp = "no_connection" => (raised /\ db.ledger = before)
    /\ lastOp = "initialize" =>
          /\ connected /\ ~raised
          /\ Len(log) = 1 /\ log[1].kind = "CREATE TABLE" /\ log[1].ok
          /\ db.ledger = before /\ tx.ledger = before

\* initialize() runs again on a ledger that holds two records
C14_Witness ==
    lastOp = "initialize" /\ Cardinality(before) = 2

\* a batch is called before initialize()
C14_WitnessBefore ==
    lastOp = "no_connection" /\ DOMAIN disk # {}

----------------------------------------------------------------------------
(* Two processes on one database.  Each runs apply_all_migrations on its   *)
(* own connection against the same directory; a step is one statement.     *)
(* The files hold statements that return no rows, so every statement is    *)
(* committed by execute_query at once and a connection holds no writes of  *)
(* its own between two statements: each statement works on the committed   *)
(* state (READ COMMITTED).                                                 *)

ProcIds == {1, 2}

\* the connection of process p at the start of its next statement
ProcConn(p) ==
    [db |-> db, tx |-> db, status |-> procs[p].status, seq |-> seq, log |-> <<>>]

\* process p has executed a statement: S is its connection afterwards
ProcStep(p, S, pc, todo, failed) ==
    /\ db' = S.db
    /\ seq' = S.seq
    /\ procs' = [procs EXCEPT ![p] = [pc |-> pc, todo |-> todo, status |-> S.status,
                                      raised |-> failed]]
    /\ UNCHANGED <<disk, connected, tx, status, lastOp, raised, log, fail, before,
                   prev, rt, client, query>>

ConcInit ==
    /\ \E F \in SUBSET FileNames :
          /\ Cardinality(F) \in 1..MaxFiles
          /\ disk = [f \in F |-> Good]
    /\ connected = TRUE
    /\ db = [schema |-> {}, ledger |-> {}]
    /\ tx = [schema |-> {}, ledger |-> {}]
    /\ status = "idle"
    /\ seq = 1
    /\ lastOp = "none"
    /\ raised = FALSE
    /\ log = <<>>
    /\ fail = NoFail
    /\ before = {}
    /\ prev = FALSE
    /\ rt = NoTrip
    /\ procs = [p \in ProcIds |-> [pc |-> "start", todo |-> <<>>, status |-> "idle",
                                   raised |-> FALSE]]
    /\ client = Unused
    /\ query = Unused

\* get_applied_migrations, sorted(os.listdir(...)) and the pending list
ProcSelect(p) ==
    /\ procs[p].pc = "start"
    /\ LET S == FindMany(ProcConn(p))
           todo == Pending(Names(S.tx.ledger))
       IN  ProcStep(p, S, IF todo = <<>> THEN "done" ELSE "begin", todo, FALSE)

\* apply_migration: execute_query("BEGIN")
ProcBegin(p) ==
    /\ procs[p].pc = "begin"
    /\ LET file == Head(procs[p].todo)
           r == ExecuteQuery(ProcConn(p), Stmt("BEGIN", file, <<>>), FALSE)
       IN  ProcStep(p, r.s, "sql", procs[p].todo, FALSE)

\* apply_migration: execute_query(sql_to_execute), and the except clause when
\* the SQL fails
ProcSql(p) ==
    /\ procs[p].pc = "sql"
    /\ \E fails \in BOOLEAN :
          LET file == Head(procs[p].todo)
              r == ExecuteQuery(ProcConn(p),
                                Stmt("SQL", file, ParseFile(disk[file], "up").sql), fails)
          IN  IF r.raised
              THEN ProcStep(p, Handler(r.s, file, "up", "sql", db).s, "done",
                            procs[p].todo, TRUE)
              ELSE ProcStep(p, r.s, "insert", procs[p].todo, FALSE)

\* apply_migration: insert_into_table("_migrations", {"name": file_name})
ProcInsert(p) ==
    /\ procs[p].pc = "insert"
    /\ seq <= MaxId
    /\ LET r == InsertIntoTable(ProcConn(p), Head(procs[p].todo), FALSE)
       IN  ProcStep(p, r.s, "commit", procs[p].todo, FALSE)

\* apply_migration: execute_query("COMMIT"), then the next pending file
ProcCommit(p) ==
    /\ procs[p].pc = "commit"
    /\ LET file == Head(procs[p].todo)
           rest == Tail(procs[p].todo)
           r == ExecuteQuery(ProcConn(p), Stmt("COMMIT", file, <<>>), FALSE)
       IN  ProcStep(p, r.s, IF rest = <<>> THEN "done" ELSE "begin", rest, FALSE)

ConcSelect == \E p \in ProcIds : ProcSelect(p)
ConcBegin == \E p \in ProcIds : ProcBegin(p)
ConcSql == \E p \in ProcIds : ProcSql(p)
ConcInsert == \E p \in ProcIds : ProcInsert(p)
ConcCommit == \E p \in ProcIds : ProcCommit(p)

ConcNext ==
    \/ ConcSelect
    \/ ConcBegin
    \/ ConcSql
    \/ ConcInsert
    \/ ConcCommit

SpecConc == ConcInit /\ [][ConcNext]_<<vars, others>>

\* C11 (as claimed): whatever the interleaving of two processes running
\* apply_all_migrations, the ledger never holds two records of one file name.
C11_UniqueUnderConcurrency ==
    \A r, q \in db.ledger : r.name = q.name => r = q


----------------------------------------------------------------------------
(* One PgUtils client: its Database object, the connections it opens and the
   server's catalog entry of its database.  client is a record:
     exists  the server has a database of the client's name
     manage  manage_migrations of the client
     open    the connections opened through Database.connect and still open
     cur     Database.connection (0: the attribute is not set yet)
     next    the identity the next opened connection gets
     used    the connections that ran a statement of the client
     op, raised, existed, sent   the last call, whether it raised, whether the
             database existed when it started, the statements it sent        *)

MaxConns == 3

NoConn == 0

RunnerUnused ==
    /\ disk = Unused /\ connected = Unused /\ db = Unused /\ tx = Unused
    /\ status = Unused /\ seq = Unused /\ lastOp = Unused /\ raised = Unused
    /\ log = Unused /\ fail = Unused /\ before = Unused /\ prev = Unused
    /\ rt = Unused /\ procs = Unused

\* create_database without the catalog lookup
CreateDatabaseAlways(exists) ==
    [sent |-> <<"CREATE DATABASE">>, exists |-> TRUE, error |-> exists]

\* create_database: the lookup in pg_database, CREATE DATABASE when it finds
\* no row; the server rejects a CREATE DATABASE of an existing name
CreateDatabase(exists) ==
    IF exists
    THEN [sent |-> <<"SELECT pg_database">>, exists |-> TRUE, error |-> FALSE]
    ELSE [sent |-> <<"SELECT pg_database", "CREATE DATABASE">>, exists |-> TRUE,
          error |-> FALSE]

\* Database.connect: psycopg.connect raises when the database does not exist
\* and the attribute keeps its value; otherwise the attribute is overwritten
\* with the new connection and the one it held is not closed
Connect(c) ==
    IF c.exists
    THEN [c EXCEPT !.open = @ \cup {c.next}, !.cur = c.next, !.next = @ + 1,
                   !.raised = FALSE]
    ELSE [c EXCEPT !.raised = TRUE]

\* execute_query on the client's connection
ClientExecute(c, stmt) ==
    IF c.cur \in c.open
    THEN [c EXCEPT !.used = @ \cup {c.cur}, !.sent = Append(@, stmt), !.raised = FALSE]
    ELSE [c EXCEPT !.raised = TRUE]

\* MigrationManager.initialize: connect, then the CREATE TABLE IF NOT EXISTS
ClientInitialize(c) ==
    LET c1 == Connect(c)
    IN  IF c1.raised THEN c1 ELSE ClientExecute(c1, "CREATE TABLE")

Called(c, op) ==
    [c EXCEPT !.op = op, !.existed = c.exists, !.sent = <<>>, !.raised = FALSE]

ClientInit ==
    /\ client \in [exists : BOOLEAN, manage : BOOLEAN, open : {{}}, cur : {NoConn},
                   next : {1}, used : {{}}, op : {"none"}, raised : {FALSE},
                   existed : {FALSE}, sent : {<<>>}]
    /\ query = Unused
    /\ RunnerUnused

ClientStep(c) ==
    /\ client' = c
    /\ UNCHANGED <<vars, procs, query>>

\* PgUtils.create_and_connect_database
CreateAndConnectDatabase ==
    LET c == Called(client, "create_database")
        r == CreateDatabase(client.exists)
    IN  IF ~client.manage
        THEN ClientStep([c EXCEPT !.raised = TRUE])
        ELSE ClientStep([c EXCEPT !.exists = r.exists, !.sent = r.sent,
                                  !.raised = r.error])

\* PgUtils.get_migrations: the error of initialize is printed, not raised
GetMigrations ==
    /\ client.next <= MaxConns
    /\ LET c == Called(client, "get_migrations")
       IN  IF client.manage
           THEN ClientStep([ClientInitialize(c) EXCEPT !.raised = FALSE])
           ELSE ClientStep(c)

\* Database.connect called on get_client_database()
DatabaseConnect ==
    /\ client.next <= MaxConns
    /\ ClientStep(Connect(Called(client, "connect")))

\* a query of the application on get_client_database()
ClientQuery ==
    /\ client.cur # NoConn
    /\ ClientStep(ClientExecute(Called(client, "query"), "SELECT"))

\* Database.close
DatabaseClose ==
    /\ client.cur # NoConn
    /\ ClientStep([Called(client, "close") EXCEPT !.open = @ \ {client.cur}])

\* the interpreter finalizes a connection object nothing refers to any more,
\* which closes it; when this happens is up to the garbage collector
Finalize ==
    \E k \in client.open \ {client.cur} :
        ClientStep([client EXCEPT !.open = @ \ {k}])

ClientNext ==
    \/ CreateAndConnectDatabase
    \/ GetMigrations
    \/ DatabaseConnect
    \/ ClientQuery
    \/ DatabaseClose
    \/ Finalize

SpecClient == ClientInit /\ [][ClientNext]_<<vars, others>>

\* C13 (as claimed): at most one connection opened by the client is open, and
\* all statements of the client ran on one connection.
C13_OneConnection ==
    /\ Cardinality(client.open) <= 1
    /\ Cardinality(client.used) <= 1

\* C15: create_database sends CREATE DATABASE exactly when the catalog lookup
\* it sent first found no database; called on an existing database it sends
\* the lookup only and raises nothing; after a call the database exists.
C15_CreateIdempotent ==
    (client.op = "create_database" /\ client.manage) =>
        /\ client.exists /\ ~client.raised
        /\ client.sent[1] = "SELECT pg_database"
        /\ client.existed => client.sent = <<"SELECT pg_database">>
        /\ ~client.existed => client.sent = <<"SELECT pg_database", "CREATE DATABASE">>

\* create_database is called on a database that exists and has a connection
C15_Witness ==
    /\ client.op = "create_database" /\ client.manage /\ client.existed
    /\ client.open # {}

\* create_database is called when the database is missing
C15_WitnessCreated ==
    client.op = "create_database" /\ client.manage /\ ~client.existed


----------------------------------------------------------------------------
(* The query builder of Database.  Python values are records [t, v]: t names
   the type, v holds the value.  A string is the sequence of its pieces (a
   column name is the sequence of its characters, so that "." and "_" in it
   can be looked for); a dict is the sequence of its <<key, value>> items in
   insertion order; the keys of a filter mapping are column names or <<"OR">>,
   the keys of a condition are whole words.  SQL text is the sequence of its
   pieces in the same way, each placeholder one piece "%s".                *)

None == [t |-> "none", v |-> 0]
Num(n) == [t |-> "int", v |-> n]
Bool(b) == [t |-> "bool", v |-> b]
Text(s) == [t |-> "str", v |-> s]
List(s) == [t |-> "list", v |-> s]
Dict(s) == [t |-> "dict", v |-> s]

\* bool(x)
Truthy(x) ==
    CASE x.t = "none" -> FALSE
      [] x.t = "bool" -> x.v
      [] x.t = "int" -> x.v # 0
      [] OTHER -> Len(x.v) > 0

\* key in d
HasKey(d, k) == \E i \in 1..Len(d.v) : d.v[i][1] = k

\* d.get(k, default)
Get(d, k, default) ==
    IF HasKey(d, k)
    THEN d.v[CHOOSE i \in 1..Len(d.v) : d.v[i][1] = k][2]
    ELSE default

Digit(n) == <<"0", "1", "2", "3", "4", "5", "6", "7", "8", "9">>[n + 1]

\* str(n) of a natural number
RECURSIVE Str(_)
Str(n) == IF n < 10 THEN <<Digit(n)>> ELSE Str(n \div 10) \o <<Digit(n % 10)>>

\* f"{value}" of a None, an integer or a string
Format(value) ==
    CASE value.t = "none" -> <<"None">>
      [] value.t = "int" -> Str(value.v)
      [] value.t = "str" -> value.v

\* sep.join(parts)
RECURSIVE Join(_, _)
Join(parts, sep) ==
    IF parts = <<>> THEN <<>>
    ELSE IF Len(parts) = 1 THEN parts[1]
    ELSE parts[1] \o <<sep>> \o Join(Tail(parts), sep)

\* ", ".join(["%s"] * n)
Placeholders(n) == Join([i \in 1..n |-> <<"%s">>], ", ")

NoConds == [conds |-> <<>>, vals |-> <<>>]

FormatCondition(expression, is_not) ==
    IF is_not THEN <<"NOT (">> \o expression \o <<")">> ELSE expression

\* each parse function returns what it appends to conditions_array and to
\* where_values
ParseSimpleComparison(column, value, is_not) ==
    IF value.t = "none"
    THEN [conds |-> <<FormatCondition(column \o <<" IS NULL">>, is_not)>>, vals |-> <<>>]
    ELSE IF value.t = "list"
    THEN [conds |-> <<FormatCondition(column \o <<" IN (">> \o Placeholders(Len(value.v))
                                             \o <<")">>, is_not)>>,
          vals |-> value.v]
    ELSE [conds |-> <<FormatCondition(column \o <<" = ", "%s">>, is_not)>>,
          vals |-> <<value>>]

Wrapped(value) == Text(<<"%">> \o Format(value) \o <<"%">>)

ParseModeComparison(column, condition) ==
    LET mode == Get(condition, "mode", None)
        value == Get(condition, "value", None)
        is_not == Truthy(Get(condition, "is_not", Bool(FALSE)))
    IN  IF mode = Text(<<"ilike">>)
        THEN [conds |-> <<FormatCondition(column \o <<" ILIKE ", "%s">>, is_not)>>,
              vals |-> <<Wrapped(value)>>]
        ELSE IF mode = Text(<<"like">>)
        THEN [conds |-> <<FormatCondition(column \o <<" LIKE ", "%s">>, is_not)>>,
              vals |-> <<Wrapped(value)>>]
        ELSE IF mode = Text(<<"date">>)
        THEN [conds |-> <<FormatCondition(<<"DATE(">> \o column \o <<")", " = ", "%s">>,
                                          is_not)>>,
              vals |-> <<value>>]
        ELSE ParseSimpleComparison(column, value, is_not)

RangeOps == <<[key |-> "lt", sql |-> " < "], [key |-> "lte", sql |-> " <= "],
              [key |-> "gt", sql |-> " > "], [key |-> "gte", sql |-> " >= "]>>

RangeKeys == {RangeOps[i].key : i \in DOMAIN RangeOps}

RECURSIVE ParseRangeFrom(_, _, _)
ParseRangeFrom(column, condition, i) ==
    IF i > Len(RangeOps) THEN NoConds
    ELSE LET rest == ParseRangeFrom(column, condition, i + 1)
             cond_value == Get(condition, RangeOps[i].key, None)
             value == IF cond_value.t = "dict" THEN Get(cond_value, "value", None)
                      ELSE cond_value
             is_not == IF cond_value.t = "dict"
                       THEN Truthy(Get(cond_value, "is_not", Bool(FALSE)))
                       ELSE FALSE
         IN  IF HasKey(condition, RangeOps[i].key)
             THEN [conds |-> <<FormatCondition(column \o <<RangeOps[i].sql, "%s">>, is_not)>>
                             \o rest.conds,
                   vals |-> <<value>> \o rest.vals]
             ELSE rest

ParseRangeOperators(column, condition) == ParseRangeFrom(column, condition, 1)

Column(key, alias) ==
    IF alias # <<>> /\ "." \notin Range(key) THEN alias \o <<".">> \o key ELSE key

ProcessCondition(key, condition, alias) ==
    LET column == Column(key, alias)
    IN  IF condition.t = "none"
        THEN [conds |-> <<column \o <<" IS NULL">>>>, vals |-> <<>>]
        ELSE IF condition.t = "dict"
        THEN IF HasKey(condition, "value")
             THEN ParseModeComparison(column, condition)
             ELSE IF \E op \in RangeKeys : HasKey(condition, op)
             THEN ParseRangeOperators(column, condition)
             ELSE NoConds
        ELSE ParseSimpleComparison(column, condition, FALSE)


Or == <<"OR">>

\* the loop over the items of a filter mapping; the top level skips the OR key
RECURSIVE ProcessItems(_, _, _)
ProcessItems(items, alias, skipOr) ==
    IF items = <<>> THEN NoConds
    ELSE LET rest == ProcessItems(Tail(items), alias, skipOr)
             this == IF skipOr /\ items[1][1] = Or THEN NoConds
                     ELSE ProcessCondition(items[1][1], items[1][2], alias)
         IN  [conds |-> this.conds \o rest.conds, vals |-> this.vals \o rest.vals]

\* WhereValues with the OR group's values put first
WhereValuesOrFirst(seed, ands, ors) == seed \o ors.vals \o ands.vals

\* where_values after both loops: the copy of values, what the AND loop
\* appended, what the OR loop appended
WhereValues(seed, ands, ors) == seed \o ands.vals \o ors.vals

Clause(and_conditions, or_conditions) ==
    IF and_conditions # <<>> \/ or_conditions # <<>>
    THEN <<" WHERE ">>
         \o (IF and_conditions # <<>>
             THEN <<"(">> \o Join(and_conditions, " AND ") \o <<")">> ELSE <<>>)
         \o (IF or_conditions # <<>>
             THEN (IF and_conditions # <<>> THEN <<" OR ">> ELSE <<>>)
                  \o <<"(">> \o Join(or_conditions, " OR ") \o <<")">>
             ELSE <<>>)
    ELSE <<>>

\* build_where_clause(where, values, main_table_alias); no path of it raises
BuildWhereClause(where, values, main_table_alias) ==
    IF ~Truthy(where)
    THEN [clause |-> <<>>, values |-> <<>>, raised |-> FALSE]
    ELSE LET ands == ProcessItems(where.v, main_table_alias, TRUE)
             ors == IF HasKey(where, Or)
                    THEN ProcessItems(Get(where, Or, None).v, main_table_alias, FALSE)
                    ELSE NoConds
             seed == IF Truthy(values) THEN values.v ELSE <<>>
         IN  [clause |-> Clause(ands.conds, ors.conds),
              values |-> WhereValues(seed, ands, ors),
              raised |-> FALSE]

Identifier(name) == <<"\"">> \o name \o <<"\"">>

Values(d) == [i \in 1..Len(d.v) |-> d.v[i][2]]

\* update_into_table(table, data_dict, where): the statement and parameters
\* handed to cursor.execute
UpdateIntoTable(table, data_dict, where) ==
    LET values == Values(data_dict)
        set_clause == Join([i \in 1..Len(data_dict.v) |->
                               Identifier(data_dict.v[i][1]) \o <<" = ", "%s">>], ", ")
        built == BuildWhereClause(where, List(values), <<>>)
    IN  [query |-> <<"UPDATE ">> \o Identifier(table) \o <<" SET ">> \o set_clause
                   \o built.clause,
         params |-> built.values,
         raised |-> built.raised]

\* delete_from_table(table, where)
DeleteFromTableQuery(table, where) ==
    LET built == BuildWhereClause(where, None, <<>>)
    IN  [query |-> <<"DELETE FROM ">> \o Identifier(table) \o <<" ">> \o built.clause,
         params |-> built.values,
         raised |-> built.raised]


\* table.lstrip("_")
RECURSIVE LStrip(_)
LStrip(table) ==
    IF table # <<>> /\ table[1] = "_" THEN LStrip(Tail(table)) ELSE table

\* table.split("_")
RECURSIVE SplitOn(_, _)
SplitOn(table, part) ==
    IF table = <<>> THEN <<part>>
    ELSE IF table[1] = "_" THEN <<part>> \o SplitOn(Tail(table), <<>>)
    ELSE SplitOn(Tail(table), Append(part, table[1]))

Initials(parts) == [i \in 1..Len(parts) |-> parts[i][1]]

\* create_alias: the initials of the parts, then the first counter from 1 on
\* that makes the alias new; the alias is added to existing_aliases
CreateAlias(table, existing_aliases) ==
    LET base == Initials(SplitOn(LStrip(table), <<>>))
        free == {c \in 1..(Cardinality(existing_aliases) + 1) :
                    base \o Str(c) \notin existing_aliases}
        counter == CHOOSE c \in free : \A d \in free : c <= d
        alias == IF base \in existing_aliases THEN base \o Str(counter) ELSE base
    IN  [alias |-> alias, existing |-> existing_aliases \cup {alias}]

\* the loop over joins in find_many and count: a join's own alias is taken as
\* it is and added to the set, a missing one is created
RECURSIVE JoinAliases(_, _)
JoinAliases(joins, existing_aliases) ==
    IF joins = <<>> THEN <<>>
    ELSE LET join == joins[1]
             own == HasKey(join, "alias") /\ Truthy(Get(join, "alias", None))
             made == CreateAlias(Get(join, "table", None).v, existing_aliases)
             join_alias == IF own THEN Get(join, "alias", None).v ELSE made.alias
             existing == (IF own THEN existing_aliases ELSE made.existing)
                         \cup (IF Get(join, "alias", None).t = "str"
                               THEN {Get(join, "alias", None).v}
                               ELSE {})
         IN  <<[table |-> Get(join, "table", None).v, alias |-> join_alias]>>
             \o JoinAliases(Tail(joins), existing)

\* the tables one find_many or count statement refers to, each with the alias
\* it gets in FROM .. AS .. and JOIN .. AS ..
StatementAliases(table, alias, joins) ==
    LET made == CreateAlias(table, {})
        main_table_alias == IF Truthy(alias) THEN alias.v ELSE made.alias
        existing == IF Truthy(alias) THEN {alias.v} ELSE made.existing
    IN  <<[table |-> table, alias |-> main_table_alias]>>
        \o (IF Truthy(joins) THEN JoinAliases(joins.v, existing) ELSE <<>>)


(* The calls checked: every filter mapping of at most MaxKeys conditions over
   the columns and conditions below, every statement of at most MaxJoins
   joins over the tables and aliases below.                                 *)

MaxKeys == 2
MaxJoins == 2

AndColumns == {<<"a">>, <<"t", ".", "b">>}
OrColumns == {<<"c">>, <<"a">>}

PlainConditions ==
    {None, Num(1), Num(2), List(<<>>), List(<<Num(1), Num(2)>>)}

ModeConditions ==
    {Dict(<<<<"value", Num(3)>>>>),
     Dict(<<<<"value", Num(3)>>, <<"mode", Text(<<"like">>)>>>>),
     Dict(<<<<"value", None>>, <<"mode", Text(<<"ilike">>)>>, <<"is_not", Bool(TRUE)>>>>),
     Dict(<<<<"mode", Text(<<"date">>)>>, <<"value", Num(3)>>>>),
     Dict(<<<<"value", Num(3)>>, <<"mode", Text(<<"not">>)>>>>),
     Dict(<<<<"value", None>>, <<"mode", Text(<<"not">>)>>>>),
     Dict(<<<<"value", Num(3)>>, <<"mode", Text(<<"equals">>)>>, <<"is_not", Bool(TRUE)>>>>),
     Dict(<<<<"value", List(<<>>)>>, <<"is_not", Bool(TRUE)>>>>)}

RangeConditions ==
    {Dict(<<<<"lt", Num(4)>>>>),
     Dict(<<<<"gt", None>>>>),
     Dict(<<<<"gte", Num(5)>>, <<"lt", Num(4)>>>>),
     Dict(<<<<"lte", Dict(<<<<"value", Num(6)>>, <<"is_not", Bool(TRUE)>>>>)>>>>),
     Dict(<<<<"lt", Dict(<<<<"is_not", Bool(TRUE)>>>>)>>>>)}

OtherConditions ==
    {Dict(<<<<"foo", Num(7)>>>>), Dict(<<>>)}

Conditions == PlainConditions \cup ModeConditions \cup RangeConditions \cup OtherConditions

\* the conditions tried inside the OR group
OrConditions ==
    {None, Num(2), List(<<Num(2), Num(1)>>),
     Dict(<<<<"value", Num(3)>>, <<"mode", Text(<<"like">>)>>>>),
     Dict(<<<<"gt", Num(5)>>, <<"lte", Num(4)>>>>),
     Dict(<<<<"foo", Num(7)>>>>)}

\* the item lists of n conditions on different columns
RECURSIVE ItemsOver(_, _, _)
ItemsOver(columns, conditions, n) ==
    IF n = 0 THEN {<<>>}
    ELSE UNION {{Append(items, <<k, c>>) :
                    k \in {x \in columns : \A i \in 1..Len(items) : items[i][1] # x},
                    c \in conditions} :
                items \in ItemsOver(columns, conditions, n - 1)}

InsertAt(items, p, item) ==
    SubSeq(items, 1, p - 1) \o <<item>> \o SubSeq(items, p, Len(items))

Users == <<"u", "s", "e", "r", "s">>
Orders == <<"o", "r", "d", "e", "r", "s">>
OrderItems == <<"o", "r", "d", "e", "r", "_", "i", "t", "e", "m", "s">>
Tables == {Users, Orders, OrderItems}

Joins ==
    {Dict(<<<<"table", Text(t)>>>>) : t \in Tables}
    \cup {Dict(<<<<"table", Text(t)>>, <<"alias", Text(a)>>>>) :
             t \in Tables, a \in {<<"o">>, <<"o", "i">>}}

NoOut == <<>>

\* build_where_clause(where, values, main_table_alias)
BuildInput(where) ==
    \E given \in {[values |-> None, alias |-> <<>>],
                  [values |-> List(<<Num(9)>>), alias |-> <<"u">>],
                  [values |-> List(<<Num(9)>>), alias |-> <<>>]} :
        query = [op |-> "build_where_clause", done |-> FALSE, out |-> NoOut,
                 where |-> where, values |-> given.values, alias |-> given.alias]

\* update_into_table(table, data_dict, where)
UpdateInput(where) ==
    \E data \in {Dict(<<<<<<"x">>, Num(8)>>>>),
                 Dict(<<<<<<"y">>, Num(9)>>, <<<<"x">>, Num(8)>>>>)} :
        query = [op |-> "update_into_table", done |-> FALSE, out |-> NoOut,
                 table |-> Users, data |-> data, where |-> where]

\* delete_from_table(table, where)
DeleteInput(where) ==
    query = [op |-> "delete_from_table", done |-> FALSE, out |-> NoOut,
             table |-> Users, where |-> where]

\* find_many(table, alias, joins=..) and count(table, alias, joins=..)
AliasInputs ==
    [op : {"find_many", "count"}, done : {FALSE}, out : {NoOut},
     table : Tables, alias : {None, Text(<<"o">>), Text(<<"u">>)},
     joins : {None} \cup UNION {{List(js) : js \in [1..n -> Joins]} : n \in 0..MaxJoins}]

\* the calls that take a filter
WhereCall(where) ==
    \/ BuildInput(where)
    \/ UpdateInput(where)
    \/ DeleteInput(where)

\* a call for every filter tried: none, the empty OR group alone, AND
\* conditions alone, and AND conditions with an OR group of at least one
\* condition put at every place among them
WhereInputs ==
    \/ WhereCall(None)
    \/ WhereCall(Dict(<<<<Or, Dict(<<>>)>>>>))
    \/ \E n \in 0..MaxKeys :
          \E ands \in ItemsOver(AndColumns, Conditions, n) : WhereCall(Dict(ands))
    \/ \E n \in 0..MaxKeys :
          \E m \in 1..(MaxKeys - n) :
              \E ands \in ItemsOver(AndColumns, Conditions, n) :
                  \E ors \in ItemsOver(OrColumns, OrConditions, m) :
                      \E p \in 1..(n + 1) :
                          WhereCall(Dict(InsertAt(ands, p, <<Or, Dict(ors)>>)))

QueryInit ==
    /\ \/ WhereInputs
       \/ query \in AliasInputs
    /\ client = Unused
    /\ RunnerUnused

Returned(op, out) ==
    /\ query.op = op
    /\ ~query.done
    /\ query' = [query EXCEPT !.done = TRUE, !.out = out]
    /\ UNCHANGED <<vars, procs, client>>

CallBuildWhereClause ==
    Returned("build_where_clause",
             BuildWhereClause(query.where, query.values, query.alias))

\* the statement and the parameters update_into_table hands to cursor.execute
CallUpdateIntoTable ==
    Returned("update_into_table", UpdateIntoTable(query.table, query.data, query.where))

\* the statement and the parameters delete_from_table hands to cursor.execute
CallDeleteFromTable ==
    Returned("delete_from_table", DeleteFromTableQuery(query.table, query.where))

\* the FROM and JOIN part of the statement find_many builds
CallFindMany ==
    Returned("find_many", StatementAliases(query.table, query.alias, query.joins))

\* the FROM and JOIN part of the statement count builds
CallCount ==
    Returned("count", StatementAliases(query.table, query.alias, query.joins))

QueryNext ==
    \/ CallBuildWhereClause
    \/ CallUpdateIntoTable
    \/ CallDeleteFromTable
    \/ CallFindMany
    \/ CallCount

SpecQuery == QueryInit /\ [][QueryNext]_<<vars, others>>

(* What the properties read off a call. *)

AndItems(where) == SelectSeq(where.v, LAMBDA item : item[1] # Or)

OrItems(where) == IF HasKey(where, Or) THEN Get(where, Or, None).v ELSE <<>>

FilterItems(where) == AndItems(where) \o OrItems(where)

PlaceholdersAt(text) == {i \in 1..Len(text) : text[i] = "%s"}

NthPlaceholder(text, n) ==
    CHOOSE i \in PlaceholdersAt(text) :
        Cardinality({j \in PlaceholdersAt(text) : j <= i}) = n

ComparisonPieces == {" = ", " IN (", " LIKE ", " ILIKE ", " < ", " <= ", " > ", " >= "}

ColumnPieces == UNION {Range(k) : k \in AndColumns \cup OrColumns} \cup {"u", "."}

\* the comparison a placeholder belongs to: the nearest one on its left
OperatorAt(text, pos) ==
    CHOOSE q \in 1..pos :
        /\ text[q] \in ComparisonPieces
        /\ \A r \in (q + 1)..pos : text[r] \notin ComparisonPieces

InDate(text, pos) == text[OperatorAt(text, pos) - 1] = ")"

\* the column written on the left of that comparison
ColumnAt(text, pos) ==
    LET q == OperatorAt(text, pos)
        last == IF InDate(text, pos) THEN q - 2 ELSE q - 1
        first == CHOOSE f \in 1..last :
                     /\ \A r \in f..last : text[r] \in ColumnPieces
                     /\ f = 1 \/ text[f - 1] \notin ColumnPieces
    IN  SubSeq(text, first, last)

\* the rank of a placeholder among those of its comparison
IndexAt(text, pos) ==
    Cardinality({j \in PlaceholdersAt(text) : OperatorAt(text, pos) < j /\ j <= pos})

\* condition asks for value v at the placeholder at pos
Binds(condition, text, pos, v) ==
    LET op == text[OperatorAt(text, pos)]
        idx == IndexAt(text, pos)
        value == Get(condition, "value", None)
        mode == Get(condition, "mode", None)
    IN  CASE condition.t = "int" -> op = " = " /\ ~InDate(text, pos) /\ v = condition
          [] condition.t = "list" ->
                op = " IN (" /\ idx <= Len(condition.v) /\ v = condition.v[idx]
          [] condition.t = "dict" /\ HasKey(condition, "value") ->
                IF mode = Text(<<"like">>) THEN op = " LIKE " /\ v = Wrapped(value)
                ELSE IF mode = Text(<<"ilike">>) THEN op = " ILIKE " /\ v = Wrapped(value)
                ELSE IF mode = Text(<<"date">>)
                THEN op = " = " /\ InDate(text, pos) /\ v = value
                ELSE IF value.t = "list"
                THEN op = " IN (" /\ idx <= Len(value.v) /\ v = value.v[idx]
                ELSE op = " = " /\ ~InDate(text, pos) /\ v = value
          [] condition.t = "dict" /\ ~HasKey(condition, "value") ->
                \E i \in DOMAIN RangeOps :
                    /\ HasKey(condition, RangeOps[i].key)
                    /\ op = RangeOps[i].sql
                    /\ LET bound == Get(condition, RangeOps[i].key, None)
                       IN  v = IF bound.t = "dict" THEN Get(bound, "value", None) ELSE bound
          [] OTHER -> FALSE

ScalarOnly(items) == \A i \in 1..Len(items) : items[i][2].t = "int"

\* C16: what build_where_clause returns holds one value per placeholder of the
\* clause, in the order of the placeholders, after the values it was given:
\* each placeholder is bound to the value that the condition on the column
\* written left of it asks for; when every condition is a scalar there is one
\* placeholder per key, the AND keys in their order first and the OR keys in
\* their order after them, wherever the OR key sits in the mapping.
C16_ValuesFollowPlaceholders ==
    (query.op = "build_where_clause" /\ query.done) =>
        LET text == query.out.clause
            bound == query.out.values
            n == Cardinality(PlaceholdersAt(text))
            seed == IF Truthy(query.values) THEN query.values.v ELSE <<>>
            items == FilterItems(query.where)
        IN  IF ~Truthy(query.where)
            THEN text = <<>> /\ bound = <<>>
            ELSE /\ Len(bound) = Len(seed) + n
                 /\ SubSeq(bound, 1, Len(seed)) = seed
                 /\ \A k \in 1..n :
                       \E i \in 1..Len(items) :
                           /\ Column(items[i][1], query.alias)
                                  = ColumnAt(text, NthPlaceholder(text, k))
                           /\ Binds(items[i][2], text, NthPlaceholder(text, k),
                                    bound[Len(seed) + k])
                 /\ ScalarOnly(items) =>
                       /\ n = Len(items)
                       /\ \A k \in 1..n :
                             /\ ColumnAt(text, NthPlaceholder(text, k))
                                    = Column(items[k][1], query.alias)
                             /\ bound[Len(seed) + k] = items[k][2]

\* the OR key comes first in the mapping, the AND key after it, both scalar,
\* and a value was given
C16_Witness ==
    /\ query.op = "build_where_clause" /\ query.done
    /\ Truthy(query.where) /\ Truthy(query.values)
    /\ query.where.v[1][1] = Or
    /\ Len(AndItems(query.where)) = 1 /\ Len(OrItems(query.where)) = 1
    /\ ScalarOnly(FilterItems(query.where))
    /\ Len(query.out.values) = 3

\* a list and a range condition in one filter
C16_WitnessList ==
    /\ query.op = "build_where_clause" /\ query.done
    /\ Truthy(query.where)
    /\ \E i, j \in 1..Len(FilterItems(query.where)) :
          /\ FilterItems(query.where)[i][2].t = "list"
          /\ FilterItems(query.where)[j][2].t = "dict"
    /\ Len(query.out.values) >= 4

\* C17 (as claimed): the clause build_where_clause returns has no IN with an
\* empty parenthesis.
C17_NoEmptyIn ==
    (query.op = "build_where_clause" /\ query.done) =>
        \A i \in 1..(Len(query.out.clause) - 1) :
            ~(query.out.clause[i] = " IN (" /\ query.out.clause[i + 1] = ")")

\* C18 (as claimed): the tables of one find_many or count statement have
\* pairwise different aliases.
C18_DistinctAliases ==
    (query.op \in {"find_many", "count"} /\ query.done) =>
        \A i, j \in 1..Len(query.out) :
            query.out[i].alias = query.out[j].alias => i = j

\* C19 (as claimed): update_into_table without a filter sends no WHERE and
\* binds exactly the SET values; with a filter it binds the SET values and
\* then the filter's values.
C19_UpdateBindsSetValues ==
    (query.op = "update_into_table" /\ query.done) =>
        IF ~Truthy(query.where)
        THEN /\ " WHERE " \notin Range(query.out.query)
             /\ query.out.params = Values(query.data)
        ELSE query.out.params
                 = Values(query.data) \o BuildWhereClause(query.where, None, <<>>).values

NoBound(bound) ==
    \/ bound.t = "none"
    \/ bound.t = "dict" /\ Get(bound, "value", None).t = "none"

Malformed(where) ==
    /\ Truthy(where)
    /\ \E i \in 1..Len(FilterItems(where)) :
          LET condition == FilterItems(where)[i][2]
          IN  /\ condition.t = "dict"
              /\ ~HasKey(condition, "value")
              /\ \/ \A op \in RangeKeys : ~HasKey(condition, op)
                 \/ \E op \in RangeKeys :
                       HasKey(condition, op) /\ NoBound(Get(condition, op, None))

\* C20 (as claimed): a filter with a range operator without a value, or with
\* a structured condition that has neither value nor a range key, makes the
\* builder raise; delete_from_table and update_into_table given a non-empty
\* filter send a statement only with a WHERE clause.
C20_MalformedRaises ==
    (query.op \in {"build_where_clause", "update_into_table", "delete_from_table"}
        /\ query.done) =>
        /\ Malformed(query.where) => query.out.raised
        /\ (query.op # "build_where_clause" /\ Truthy(query.where) /\ ~query.out.raised)
              => " WHERE " \in Range(query.out.query)


\* the fragment a value-mode condition on column stands for
ModeFragment(column, condition) ==
    LET mode == Get(condition, "mode", None)
        value == Get(condition, "value", None)
        plain == IF mode = Text(<<"like">>) THEN column \o <<" LIKE ", "%s">>
                 ELSE IF mode = Text(<<"ilike">>) THEN column \o <<" ILIKE ", "%s">>
                 ELSE IF mode = Text(<<"date">>)
                 THEN <<"DATE(">> \o column \o <<")", " = ", "%s">>
                 ELSE IF mode = Text(<<"not">>)
                 THEN IF value.t = "none" THEN column \o <<" IS NOT NULL">>
                      ELSE column \o <<" != ", "%s">>
                 ELSE column \o <<" = ", "%s">>
    IN  IF Truthy(Get(condition, "is_not", Bool(FALSE)))
        THEN <<"NOT (">> \o plain \o <<")">>
        ELSE plain

\* the value bound to the placeholder of that fragment
ModeValue(condition) ==
    IF Get(condition, "mode", None) \in {Text(<<"like">>), Text(<<"ilike">>)}
    THEN Wrapped(Get(condition, "value", None))
    ELSE Get(condition, "value", None)

\* the conditions the claim speaks of: a value with a named mode, or a scalar
\* value with no mode
ModeCase(condition) ==
    /\ condition.t = "dict"
    /\ HasKey(condition, "value")
    /\ \/ Get(condition, "mode", None) \in
              {Text(<<"like">>), Text(<<"ilike">>), Text(<<"date">>), Text(<<"not">>)}
       \/ Get(condition, "value", None).t = "int"

\* fragment stands in text at start as one whole condition of a group
StandsAt(text, fragment, start) ==
    /\ start > 1 /\ start + Len(fragment) <= Len(text)
    /\ SubSeq(text, start, start + Len(fragment) - 1) = fragment
    /\ text[start - 1] \in {"(", " AND ", " OR "}
    /\ text[start + Len(fragment)] \in {")", " AND ", " OR "}

\* C21 (as claimed): every value-mode condition of a filter appears in the
\* clause as the fragment of its mode (=, != or IS NOT NULL, LIKE, ILIKE,
\* DATE(..) =), wrapped in NOT (..) when is_not is set, and its placeholder
\* is bound to the value, between % signs for like and ilike.
C21_ModeFragments ==
    (query.op = "build_where_clause" /\ query.done /\ Truthy(query.where)) =>
        LET text == query.out.clause
            bound == query.out.values
            seed == IF Truthy(query.values) THEN query.values.v ELSE <<>>
            items == FilterItems(query.where)
        IN  \A i \in 1..Len(items) :
                ModeCase(items[i][2]) =>
                    LET fragment == ModeFragment(Column(items[i][1], query.alias),
                                                 items[i][2])
                    IN  \E start \in 1..Len(text) :
                            /\ StandsAt(text, fragment, start)
                            /\ \A pos \in start..(start + Len(fragment) - 1) :
                                  text[pos] = "%s" =>
                                      bound[Len(seed) + Cardinality(
                                                {j \in PlaceholdersAt(text) : j <= pos})]
                                          = ModeValue(items[i][2])


----------------------------------------------------------------------------
(* One connection, one call of the Database at a time: execute_query with
   each statement apply_migration sends, insert_into_table and
   delete_from_table on the ledger, in any order.  log holds the statement
   of the last call, before the connection as the call found it.           *)

ExecFile == <<1>>

\* migration sections: DDL, one statement that returns rows, rows first and
\* DDL after, nothing
ExecSections == {<<"CREATE">>, <<"DROP">>, <<"SELECT">>, <<"SELECT", "CREATE">>, <<>>}

ExecInit ==
    /\ db = [schema |-> {}, ledger |-> {}]
    /\ tx = [schema |-> {}, ledger |-> {}]
    /\ status = "idle"
    /\ seq = 1
    /\ lastOp = "none"
    /\ raised = FALSE
    /\ log = <<>>
    /\ before = [db |-> [schema |-> {}, ledger |-> {}],
                 tx |-> [schema |-> {}, ledger |-> {}], status |-> "idle"]
    /\ disk = Unused /\ connected = Unused /\ fail = Unused /\ prev = Unused
    /\ rt = Unused /\ procs = Unused /\ client = Unused /\ query = Unused

ExecCur == [db |-> db, tx |-> tx, status |-> status, seq |-> seq, log |-> <<>>]

ExecReturned(op, r) ==
    /\ db' = r.s.db
    /\ tx' = r.s.tx
    /\ status' = r.s.status
    /\ seq' = r.s.seq
    /\ log' = r.s.log
    /\ lastOp' = op
    /\ raised' = r.raised
    /\ before' = [db |-> db, tx |-> tx, status |-> status]
    /\ UNCHANGED <<disk, connected, fail, prev, rt, others>>

ExecBegin ==
    \E fails \in BOOLEAN :
        ExecReturned("execute_query",
                     ExecuteQuery(ExecCur, Stmt("BEGIN", ExecFile, <<>>), fails))

ExecSql ==
    \E sql \in ExecSections, fails \in BOOLEAN :
        ExecReturned("execute_query",
                     ExecuteQuery(ExecCur, Stmt("SQL", ExecFile, sql), fails))

ExecCommit ==
    ExecReturned("execute_query",
                 ExecuteQuery(ExecCur, Stmt("COMMIT", ExecFile, <<>>), FALSE))

ExecRollback ==
    ExecReturned("execute_query",
                 ExecuteQuery(ExecCur, Stmt("ROLLBACK", ExecFile, <<>>), FALSE))

\* find_many on the ledger
ExecSelect ==
    ExecReturned("execute_query",
                 ExecuteQuery(ExecCur, Stmt("SELECT", NoName, <<>>), FALSE))

ExecInsert ==
    /\ seq <= MaxId
    /\ \E fails \in BOOLEAN :
          ExecReturned("insert_into_table", InsertIntoTable(ExecCur, ExecFile, fails))

ExecDelete ==
    \E fails \in BOOLEAN :
        ExecReturned("delete_from_table", DeleteFromTable(ExecCur, ExecFile, fails))

ExecNext ==
    \/ ExecBegin
    \/ ExecSql
    \/ ExecCommit
    \/ ExecRollback
    \/ ExecSelect
    \/ ExecInsert
    \/ ExecDelete

SpecExec == ExecInit /\ [][ExecNext]_<<vars, others>>

\* the statement of the last call and what the call found
LastStmt == Stmt(log[1].kind, log[1].file, log[1].sql)

Found == IF before.status = "active" THEN before.tx ELSE before.db

Ended == status = "idle" /\ tx = db

\* an execute_query that returned: the transaction is ended exactly when the
\* statement has no column descriptors, and then what the transaction held is
\* stored; after a statement with rows the stored database is as before
CommitIffNoDescriptors ==
    (lastOp = "execute_query" /\ ~raised) =>
        /\ Ended <=> ~Description(LastStmt)
        /\ Description(LastStmt) => (status = "active" /\ db = before.db)
        /\ (~Description(LastStmt) /\ LastStmt.kind = "SQL") =>
              db.schema = RunSql(Found.schema, LastStmt.sql, LastStmt.file)
        /\ (~Description(LastStmt) /\ LastStmt.kind \in {"BEGIN", "COMMIT"}) => db = Found
        /\ LastStmt.kind = "ROLLBACK" => db = before.db

\* the ledger insert and delete commit on their own
LedgerWriteCommits ==
    (lastOp \in {"insert_into_table", "delete_from_table"} /\ ~raised) =>
        /\ Ended
        /\ lastOp = "insert_into_table" =>
              db.ledger = Found.ledger \cup {[id |-> seq - 1, name |-> ExecFile]}
        /\ lastOp = "delete_from_table" =>
              db.ledger = {r \in Found.ledger : r.name # ExecFile}

\* C22 (as claimed): execute_query commits exactly when the statement has no
\* column descriptors; BEGIN, the migration SQL, COMMIT and ROLLBACK each end
\* the transaction as soon as they are executed; the ledger insert and delete
\* commit on their own.
C22_EveryStatementEndsTransaction ==
    /\ CommitIffNoDescriptors
    /\ LedgerWriteCommits
    /\ (lastOp = "execute_query" /\ ~raised
           /\ LastStmt.kind \in {"BEGIN", "SQL", "COMMIT", "ROLLBACK"}) => Ended

\* C22 (amended): execute_query commits exactly when the statement has no
\* column descriptors; BEGIN, COMMIT, ROLLBACK and a migration SQL whose first
\* statement returns no rows each end the transaction as soon as they are
\* executed, a migration SQL whose first statement returns rows leaves it
\* open; the ledger insert and delete commit on their own.
C22_CommitsUnlessRows ==
    /\ CommitIffNoDescriptors
    /\ LedgerWriteCommits
    /\ (lastOp = "execute_query" /\ ~raised) =>
          /\ LastStmt.kind \in {"BEGIN", "COMMIT", "ROLLBACK"} => Ended
          /\ LastStmt.kind = "SQL" =>
                IF LastStmt.sql # <<>> /\ Head(LastStmt.sql) = "SELECT"
                THEN status = "active" /\ db = before.db
                     /\ tx.schema = RunSql(Found.schema, LastStmt.sql, LastStmt.file)
                ELSE Ended

\* a migration SQL with DDL after a first statement that returns rows has run
\* in a transaction that a select had left open
C22_Witness ==
    /\ lastOp = "execute_query" /\ ~raised
    /\ LastStmt.kind = "SQL" /\ LastStmt.sql = <<"SELECT", "CREATE">>
    /\ before.status = "active"
    /\ tx # db

\* a DDL migration SQL has been committed by execute_query
C22_WitnessCommit ==
    /\ lastOp = "execute_query" /\ ~raised
    /\ LastStmt.kind = "SQL" /\ LastStmt.sql = <<"CREATE">>
    /\ before.db.schema = {} /\ db.schema = {ExecFile}

====
